---------------------------- MODULE Spec2Model ----------------------------
(***************************************************************************)
(* Verification model of github.com/itsdalmo/cli: the command-resolution   *)
(* and flag-parsing engine (cli.go, parse.go, flag.go) on top of           *)
(* spf13/pflag.                                                            *)
(*                                                                         *)
(* Strings are sequences of one-character strings, so that the code's      *)
(* string surgery (strings.Index, slicing, TrimPrefix, HasPrefix) is       *)
(* computed as the code computes it.  The fixed parts of pflag's error     *)
(* messages are kept as one chunk each; no chunk contains a '-'.           *)
(***************************************************************************)
EXTENDS Integers, Sequences, FiniteSets, TLC

VARIABLES
    pc,       \* where the run is: "start", then the calls made
    osenv,    \* the process environment: variable name -> value
    val,      \* each cli flag object's Value
    envn,     \* each cli flag object's EnvVar slice
    input,    \* the arguments of the call under way
    output,   \* what the last call returned and did
    unparsed, \* what ErrUnknownFlag.Unparsed returned
    tree,     \* the Command tree as declared: per node Usage, Flags, Exec, Subcommands
    parent,   \* each Command's parent
    fs,       \* each Command's fs: the FlagSet object it points to
    gfs,      \* each Command's gfs
    parsed,   \* each Command's parsed
    gen,      \* how many FlagSets each Command has built (names the objects)
    fsets,    \* the FlagSet objects: the flags each holds
    changed,  \* the pflag.Flag objects whose Changed is set
    ncalls    \* Execute calls made on the tree

flagvars == <<val, envn>>
cmdvars == <<tree, parent, fs, gfs, parsed, gen, fsets, changed, ncalls>>
vars == <<pc, osenv, val, envn, input, output, unparsed, tree, parent, fs, gfs,
          parsed, gen, fsets, changed, ncalls>>

(***************************************************************************)
(* Bounds of the model.                                                    *)
(***************************************************************************)
\* longest argument vector handed to cli.Parse and to Command.Execute
MaxArgs == 3
\* Execute calls made one after the other on one Command tree
MaxCalls == 2

(***************************************************************************)
(* Words and tokens.                                                       *)
(***************************************************************************)
W_test == <<"t", "e", "s", "t">>
W_unknown == <<"u", "n", "k", "n", "o", "w", "n">>
W_help == <<"h", "e", "l", "p">>
W_flag == <<"f", "l", "a", "g">>
W_arg == <<"a", "r", "g">>
W_true == <<"t", "r", "u", "e">>
W_false == <<"f", "a", "l", "s", "e">>
W_region == <<"r", "e", "g", "i", "o", "n">>
W_debug == <<"d", "e", "b", "u", "g">>

Long(w) == <<"-", "-">> \o w
Short(w) == <<"-">> \o w

Nil == "nil"

\* The({e : x \in {v}}) is e with x standing for v
The(S) == CHOOSE x \in S : TRUE

(***************************************************************************)
(* Go's strings package on sequences of characters.                        *)
(***************************************************************************)
HasPrefix(s, p) == Len(p) <= Len(s) /\ SubSeq(s, 1, Len(p)) = p

\* s[n:] with a 0-based n
From(s, n) == SubSeq(s, n + 1, Len(s))

TrimPrefix(s, p) == IF HasPrefix(s, p) THEN From(s, Len(p)) ELSE s

\* strings.Index: 0-based index of the first occurrence of sub in s, or -1
Index(s, sub) ==
    LET hits == {i \in 0..(Len(s) - Len(sub)) : SubSeq(s, i + 1, i + Len(sub)) = sub}
    IN  IF hits = {} THEN -1 ELSE CHOOSE i \in hits : \A j \in hits : i <= j

\* strings.SplitN(name, "=", 2)
SplitEq(s) ==
    LET i == Index(s, <<"=">>)
    IN  IF i < 0 THEN <<s>> ELSE <<SubSeq(s, 1, i), From(s, i + 1)>>

\* byte order of the characters that occur in flag names
Alphabet == <<"$", "-", "=", "a", "b", "c", "d", "e", "f", "g", "h", "i", "j",
              "k", "l", "m", "n", "o", "p", "q", "r", "s", "t", "u", "v",
              "w", "x", "y", "z">>

Rank(c) == CHOOSE i \in 1..Len(Alphabet) : Alphabet[i] = c

\* a < b for Go strings
RECURSIVE StrLess(_, _)
StrLess(a, b) ==
    IF b = <<>> THEN FALSE
    ELSE IF a = <<>> THEN TRUE
    ELSE IF a[1] # b[1] THEN Rank(a[1]) < Rank(b[1])
    ELSE StrLess(Tail(a), Tail(b))

(***************************************************************************)
(* Errors.  kind "pflag" carries pflag's message text.                     *)
(***************************************************************************)
NoErr == [kind |-> "nil", msg |-> <<>>]
ErrHelp == [kind |-> "help", msg |-> <<"pflag: help requested">>]
PflagErr(m) == [kind |-> "pflag", msg |-> m]
ErrMissing(names) == [kind |-> "missing", msg |-> names]
ErrSet(m) == [kind |-> "set", msg |-> m]

MsgUnknownFlag == "unknown flag: "
MsgUnknownShorthand == "unknown shorthand flag: "
MsgNeedsArg == "flag needs an argument: "
MsgBadSyntax == "bad flag syntax: "
MsgInvalidArg == "invalid argument "

isUnknownFlag(e) == e.kind = "pflag" /\ e.msg[1] = MsgUnknownFlag
isUnknownShorthand(e) == e.kind = "pflag" /\ e.msg[1] = MsgUnknownShorthand
isUnknownFlagErr(e) == isUnknownFlag(e) \/ isUnknownShorthand(e)

(***************************************************************************)
(* Flag values.  A bool flag accepts what strconv.ParseBool accepts, a     *)
(* string flag accepts everything.                                         *)
(***************************************************************************)
BoolTrue == {<<"1">>, <<"t">>, <<"T">>, W_true, <<"T", "R", "U", "E">>, <<"T", "r", "u", "e">>}
BoolFalse == {<<"0">>, <<"f">>, <<"F">>, W_false, <<"F", "A", "L", "S", "E">>, <<"F", "a", "l", "s", "e">>}

\* Value.Set: does the flag's type accept the text
Accepts(type, v) == type = "string" \/ v \in BoolTrue \/ v \in BoolFalse

\* the value the slot holds after Value.Set: strconv.ParseBool returns false
\* with its error
Stored(type, v) ==
    IF type = "string" THEN v ELSE IF v \in BoolTrue THEN W_true ELSE W_false

\* pflag's NoOptDefVal: BoolVarP sets it to "true"
NoOptDefVal(type) == IF type = "bool" THEN W_true ELSE <<>>

\* the zero value a flag struct is constructed with
ZeroValue(type) == IF type = "bool" THEN W_false ELSE <<>>

(***************************************************************************)
(* spf13/pflag: FlagSet.Parse.  formal is the flag set's flags, each       *)
(* [pid, name, short, type]; the result is the positional arguments        *)
(* (FlagSet.Args), the values set in order, and the error; left is the     *)
(* part of the arguments not consumed when the parse stopped on an error,  *)
(* starting at the offending token.                                        *)
(***************************************************************************)
HasName(formal, n) == \E i \in 1..Len(formal) : formal[i].name = n
ByName(formal, n) == formal[CHOOSE i \in 1..Len(formal) : formal[i].name = n]
HasShort(formal, c) == \E i \in 1..Len(formal) : formal[i].short = <<c>>
ByShort(formal, c) == formal[CHOOSE i \in 1..Len(formal) : formal[i].short = <<c>>]

\* the flag's name as FlagSet.Set prints it in its error
FlagErrName(f) ==
    IF f.short = <<>> THEN Long(f.name)
    ELSE Short(f.short) \o <<", ">> \o Long(f.name)

\* FlagSet.Set: the write Value.Set makes to the flag's slot, with ok telling
\* whether Value.Set returned nil (and Changed is set), and the error.  Set
\* of a bool flag stores the result of strconv.ParseBool also when it fails.
SetFlag(f, value) ==
    IF Accepts(f.type, value)
    THEN [sets |-> <<[pid |-> f.pid, value |-> Stored(f.type, value), ok |-> TRUE]>>,
          err |-> NoErr]
    ELSE [sets |-> <<[pid |-> f.pid, value |-> Stored(f.type, value), ok |-> FALSE]>>,
          err |-> PflagErr(<<MsgInvalidArg, "\"">> \o value \o <<"\" for \"">>
                           \o FlagErrName(f) \o <<"\" flag: strconv.ParseBool: parsing \"">>
                           \o value \o <<"\": invalid syntax">>)]

parseLongArg(formal, s, a) ==
    LET name0 == From(s, 2)
        split == SplitEq(name0)
        name == split[1]
    IN  IF Len(name0) = 0 \/ name0[1] = "-" \/ name0[1] = "="
        THEN [a |-> a, sets |-> <<>>, err |-> PflagErr(<<MsgBadSyntax>> \o s)]
        ELSE IF ~HasName(formal, name)
        THEN IF name = W_help
             THEN [a |-> a, sets |-> <<>>, err |-> ErrHelp]
             ELSE [a |-> a, sets |-> <<>>,
                   err |-> PflagErr(<<MsgUnknownFlag, "-", "-">> \o name)]
        ELSE LET f == ByName(formal, name)
             IN  IF Len(split) = 2
                 THEN [a |-> a] @@ SetFlag(f, split[2])
                 ELSE IF NoOptDefVal(f.type) # <<>>
                 THEN [a |-> a] @@ SetFlag(f, NoOptDefVal(f.type))
                 ELSE IF Len(a) > 0
                 THEN [a |-> Tail(a)] @@ SetFlag(f, Head(a))
                 ELSE [a |-> a, sets |-> <<>>, err |-> PflagErr(<<MsgNeedsArg>> \o s)]

parseSingleShortArg(formal, shorthands, args) ==
    LET c == shorthands[1]
        rest == Tail(shorthands)
    IN  IF HasPrefix(shorthands, W_test \o <<".">>)
        THEN [shorts |-> <<>>, a |-> args, sets |-> <<>>, err |-> NoErr]
        ELSE IF ~HasShort(formal, c)
        THEN IF c = "h"
             THEN [shorts |-> rest, a |-> args, sets |-> <<>>, err |-> ErrHelp]
             ELSE [shorts |-> rest, a |-> args, sets |-> <<>>,
                   err |-> PflagErr(<<MsgUnknownShorthand, "'", c, "'", " in ", "-">>
                                    \o shorthands)]
        ELSE LET f == ByShort(formal, c)
             IN  IF Len(shorthands) > 2 /\ shorthands[2] = "="
                 THEN [shorts |-> <<>>, a |-> args] @@ SetFlag(f, From(shorthands, 2))
                 ELSE IF NoOptDefVal(f.type) # <<>>
                 THEN [shorts |-> rest, a |-> args] @@ SetFlag(f, NoOptDefVal(f.type))
                 ELSE IF Len(shorthands) > 1
                 THEN [shorts |-> <<>>, a |-> args] @@ SetFlag(f, rest)
                 ELSE IF Len(args) > 0
                 THEN [shorts |-> rest, a |-> Tail(args)] @@ SetFlag(f, Head(args))
                 ELSE [shorts |-> rest, a |-> args, sets |-> <<>>,
                       err |-> PflagErr(<<MsgNeedsArg, "'", c, "'", " in ", "-">>
                                        \o shorthands)]

RECURSIVE parseShorts(_, _, _, _, _)
parseShorts(formal, shorthands, args, a, sets) ==
    IF shorthands = <<>> THEN [a |-> a, sets |-> sets, err |-> NoErr]
    ELSE The({IF r.err.kind # "nil"
              THEN [a |-> r.a, sets |-> sets \o r.sets, err |-> r.err]
              ELSE parseShorts(formal, r.shorts, args, r.a, sets \o r.sets) :
              r \in {parseSingleShortArg(formal, shorthands, args)}})

parseShortArg(formal, s, args) == parseShorts(formal, Tail(s), args, args, <<>>)

RECURSIVE parseArgs(_, _, _, _)
parseArgs(formal, args, pos, sets) ==
    IF args = <<>> THEN [args |-> pos, sets |-> sets, err |-> NoErr, left |-> <<>>]
    ELSE LET s == Head(args)
             rest == Tail(args)
         IN  IF Len(s) = 0 \/ s[1] # "-" \/ Len(s) = 1
             THEN parseArgs(formal, rest, Append(pos, s), sets)
             ELSE IF s[2] = "-" /\ Len(s) = 2
             THEN [args |-> pos \o rest, sets |-> sets, err |-> NoErr, left |-> <<>>]
             ELSE The({IF r.err.kind # "nil"
                       THEN [args |-> pos, sets |-> sets \o r.sets, err |-> r.err,
                             left |-> args]
                       ELSE parseArgs(formal, r.a, pos, sets \o r.sets) :
                       r \in {IF s[2] = "-" THEN parseLongArg(formal, s, rest)
                                           ELSE parseShortArg(formal, s, rest)}})

FsParse(formal, args) == parseArgs(formal, args, <<>>, <<>>)

(***************************************************************************)
(* The cli.Flag objects of the model.  Each is one flag struct (BoolFlag,  *)
(* StringFlag) as the tests and examples declare them.                     *)
(***************************************************************************)
E_AWS_REGION == <<"A", "W", "S", "_", "R", "E", "G", "I", "O", "N">>
E_TOKEN == <<"T", "O", "K", "E", "N">>
W_token == <<"t", "o", "k", "e", "n">>
W_dry == <<"d", "r", "y">>

FlagDecl ==
    [test_s |-> [name |-> W_test, short |-> <<"t">>, type |-> "string",
                 required |-> FALSE, env |-> <<>>],
     test_b |-> [name |-> W_test, short |-> <<"t">>, type |-> "bool",
                 required |-> FALSE, env |-> <<>>],
     region |-> [name |-> W_region, short |-> <<"r">>, type |-> "string",
                 required |-> TRUE, env |-> <<E_AWS_REGION>>],
     token  |-> [name |-> W_token, short |-> <<>>, type |-> "bool",
                 required |-> TRUE, env |-> <<E_TOKEN, E_AWS_REGION>>],
     debug  |-> [name |-> W_debug, short |-> <<"d">>, type |-> "bool",
                 required |-> FALSE, env |-> <<>>],
     debug2 |-> [name |-> W_debug, short |-> <<>>, type |-> "bool",
                 required |-> FALSE, env |-> <<>>],
     dry    |-> [name |-> W_dry, short |-> <<"d">>, type |-> "bool",
                 required |-> FALSE, env |-> <<>>]]

FlagIds == DOMAIN FlagDecl

GetName(fid) == FlagDecl[fid].name
GetShorthand(fid) == FlagDecl[fid].short
IsRequired(fid) == FlagDecl[fid].required

\* the build's runtime.GOOS
GOOS == "linux"

\* usageWithEnvVar rewrites the flag's EnvVar slice in place
usageWithEnvVar(names) ==
    [i \in 1..Len(names) |->
        IF GOOS = "windows" THEN <<"%">> \o names[i] \o <<"%">> ELSE <<"$">> \o names[i]]

(***************************************************************************)
(* Resolvers.  EnvVarResolver looks the flag's EnvVar names up in the      *)
(* environment; any other FlagResolver is a table from flag name to value. *)
(***************************************************************************)
EnvVarResolver == [kind |-> "env", table |-> <<>>]
TableResolver(t) == [kind |-> "table", table |-> t]

RECURSIVE EnvLookup(_, _)
EnvLookup(names, environ) ==
    IF names = <<>> THEN [found |-> FALSE, value |-> <<>>]
    ELSE LET k == TrimPrefix(Head(names), <<"$">>)
         IN  IF k \in DOMAIN environ THEN [found |-> TRUE, value |-> environ[k]]
             ELSE EnvLookup(Tail(names), environ)

\* FlagResolver.Resolve
Resolve(r, fid, en, environ) ==
    IF r.kind = "env" THEN EnvLookup(en[fid], environ)
    ELSE IF GetName(fid) \in DOMAIN r.table
    THEN [found |-> TRUE, value |-> r.table[GetName(fid)]]
    ELSE [found |-> FALSE, value |-> <<>>]

\* the resolver loop without its break: the last resolver that reports found
lastFound(resolvers, i, fid, en, environ) ==
    LET hits == {j \in i..Len(resolvers) : Resolve(resolvers[j], fid, en, environ).found}
    IN  IF hits = {} THEN 0 ELSE CHOOSE j \in hits : \A k \in hits : k <= j

\* the resolver loop for one flag: index of the first resolver that reports
\* found, 0 when none does
RECURSIVE firstFound(_, _, _, _, _)
firstFound(resolvers, i, fid, en, environ) ==
    IF i > Len(resolvers) THEN 0
    ELSE IF Resolve(resolvers[i], fid, en, environ).found THEN i
    ELSE firstFound(resolvers, i + 1, fid, en, environ)

\* the loop body reporting every unresolved flag, required or not
resolveFlagAnyMissing(f, fid, resolvers, en, environ, acc) ==
    IF GetName(fid) # f.name THEN acc
    ELSE LET i == firstFound(resolvers, 1, fid, en, environ)
             tried == [j \in 1..(IF i = 0 THEN Len(resolvers) ELSE i) |->
                          [flag |-> fid, resolver |-> j]]
         IN  IF i = 0
             THEN [acc EXCEPT !.calls = @ \o tried,
                              !.missing = Append(@, GetName(fid))]
             ELSE LET v == Resolve(resolvers[i], fid, en, environ).value
                  IN  IF Accepts(f.type, v)
                      THEN [acc EXCEPT !.calls = @ \o tried,
                                       !.vals[f.fid] = Stored(f.type, v)]
                      ELSE [acc EXCEPT !.calls = @ \o tried,
                                       !.vals[f.fid] = Stored(f.type, v),
                                       !.rerr = ErrSet(v)]

\* the body of the loop over flags for one visited flag f of the flag set
resolveFlag(f, fid, resolvers, en, environ, acc) ==
    IF GetName(fid) # f.name THEN acc
    ELSE LET i == firstFound(resolvers, 1, fid, en, environ)
             tried == [j \in 1..(IF i = 0 THEN Len(resolvers) ELSE i) |->
                          [flag |-> fid, resolver |-> j]]
         IN  IF i = 0
             THEN [acc EXCEPT !.calls = @ \o tried,
                              !.missing = IF IsRequired(fid)
                                          THEN Append(@, GetName(fid)) ELSE @]
             ELSE LET v == Resolve(resolvers[i], fid, en, environ).value
                  IN  IF Accepts(f.type, v)
                      THEN [acc EXCEPT !.calls = @ \o tried,
                                       !.vals[f.fid] = Stored(f.type, v)]
                      ELSE [acc EXCEPT !.calls = @ \o tried,
                                       !.vals[f.fid] = Stored(f.type, v),
                                       !.rerr = ErrSet(v)]

RECURSIVE resolveFlags(_, _, _, _, _, _, _)
resolveFlags(f, flags, j, resolvers, en, environ, acc) ==
    IF j > Len(flags) THEN acc
    ELSE resolveFlags(f, flags, j + 1, resolvers, en, environ,
                      resolveFlag(f, flags[j], resolvers, en, environ, acc))

RECURSIVE resolveVisitAll(_, _, _, _, _, _, _)
resolveVisitAll(formal, k, flags, resolvers, en, environ, acc) ==
    IF k > Len(formal) THEN acc
    ELSE resolveVisitAll(formal, k + 1, flags, resolvers, en, environ,
            IF formal[k].changed THEN acc
            ELSE resolveFlags(formal[k], flags, 1, resolvers, en, environ, acc))

\* ResolveMissingFlags(fs, flags, resolvers...): formal is fs's flags in
\* VisitAll order, each with its Changed bit; vals are the value slots.
\* calls records every Resolve call made.
ResolveMissingFlags(formal, flags, resolvers, vals, en, environ) ==
    The({[vals |-> acc.vals, calls |-> acc.calls,
          err |-> IF acc.rerr.kind # "nil" THEN acc.rerr
                  ELSE IF Len(acc.missing) > 0 THEN ErrMissing(acc.missing)
                  ELSE NoErr] :
         acc \in {resolveVisitAll(formal, 1, flags, resolvers, en, environ,
                      [vals |-> vals, missing |-> <<>>, rerr |-> NoErr,
                       calls |-> <<>>])}})

(***************************************************************************)
(* Building a pflag.FlagSet from cli flags (Flag.Apply).                   *)
(***************************************************************************)
\* FlagSet.AddFlag keeps the flags; VisitAll walks them sorted by name
RECURSIVE SortedInsert(_, _)
SortedInsert(formal, f) ==
    IF formal = <<>> THEN <<f>>
    ELSE IF StrLess(f.name, Head(formal).name) THEN <<f>> \o formal
    ELSE <<Head(formal)>> \o SortedInsert(Tail(formal), f)

\* AddFlag panics when the name or the shorthand is already in the set
AddFlagPanics(formal, f) ==
    HasName(formal, f.name) \/ (f.short # <<>> /\ HasShort(formal, f.short[1]))

\* the pflag.Flag that Flag.Apply creates for flag fid; pid names the object
NewPFlag(fid, pid) ==
    [pid |-> pid, fid |-> fid, name |-> GetName(fid), short |-> GetShorthand(fid),
     type |-> FlagDecl[fid].type, changed |-> FALSE]

\* apply flags[i..] to a flag set; g tells the new pflag.Flag objects apart
RECURSIVE ApplyAll(_, _, _, _)
ApplyAll(flags, i, g, acc) ==
    IF i > Len(flags) \/ acc.panic THEN acc
    ELSE LET f == NewPFlag(flags[i], <<flags[i], g>>)
         IN  ApplyAll(flags, i + 1, g,
                 [formal |-> IF AddFlagPanics(acc.formal, f) THEN acc.formal
                             ELSE SortedInsert(acc.formal, f),
                  en |-> [acc.en EXCEPT ![flags[i]] = usageWithEnvVar(@)],
                  panic |-> AddFlagPanics(acc.formal, f)])

\* newFS
newFS(flags, en) == ApplyAll(flags, 1, 1, [formal |-> <<>>, en |-> en, panic |-> FALSE])

\* the value slots after the sets of one FlagSet.Parse, in order
RECURSIVE ApplySets(_, _, _)
ApplySets(sets, formal, vals) ==
    IF sets = <<>> THEN vals
    ELSE LET f == formal[CHOOSE i \in 1..Len(formal) : formal[i].pid = Head(sets).pid]
         IN  ApplySets(Tail(sets), formal, [vals EXCEPT ![f.fid] = Head(sets).value])

\* the flags of the set with Changed set on those the parse has set
MarkChanged(formal, sets) ==
    [i \in 1..Len(formal) |->
        [formal[i] EXCEPT !.changed =
            @ \/ \E k \in 1..Len(sets) : sets[k].ok /\ sets[k].pid = formal[i].pid]]

(***************************************************************************)
(* parse.go: cli.Parse and ErrUnknownFlag.Unparsed.                        *)
(***************************************************************************)
ErrUnknownFlag(cause, args) == [kind |-> "unknownflag", msg |-> cause.msg, args |-> args]
ErrPanic(m) == [kind |-> "panic", msg |-> <<m>>]

CliErrHelp == [kind |-> "clihelp", msg |-> <<"cli: help requested">>]

\* the switch on the error of fs.Parse
parseError(err, args) ==
    IF err.kind = "nil" THEN NoErr
    ELSE IF isUnknownFlag(err) \/ isUnknownShorthand(err) THEN ErrUnknownFlag(err, args)
    ELSE IF err.kind = "help" THEN CliErrHelp
    ELSE err

\* cli.Parse returning the arguments it was given in place of fs.Args()
ParseReturnsArgs(flags, resolvers, args, vals, en, environ) ==
    The({IF built.panic
         THEN [rest |-> <<>>, err |-> ErrPanic("flag redefined"), vals |-> vals,
               en |-> built.en, formal |-> built.formal, calls |-> <<>>, left |-> <<>>,
               sets |-> <<>>]
         ELSE The({The({[rest |-> IF rm.err.kind # "nil" THEN <<>> ELSE args,
                         err |-> IF rm.err.kind # "nil" THEN rm.err
                                 ELSE parseError(r.err, args),
                         vals |-> rm.vals, en |-> built.en,
                         formal |-> MarkChanged(built.formal, r.sets),
                         calls |-> rm.calls, left |-> r.left, sets |-> r.sets] :
                        rm \in {ResolveMissingFlags(MarkChanged(built.formal, r.sets),
                                    flags, resolvers,
                                    ApplySets(r.sets, built.formal, vals),
                                    built.en, environ)}}) :
                   r \in {FsParse(built.formal, args)}}) :
         built \in {newFS(flags, en)}})

\* cli.Parse(flags, resolvers, args): the returned remainder (rest) and error,
\* and the flag objects as the call leaves them (vals, en).  The rest of the
\* record is what the call did on the way: the flag set it built with the
\* Changed bits fs.Parse left, the values fs.Parse set in order, the Resolve
\* calls made, and the arguments fs.Parse had not consumed when it stopped.
Parse(flags, resolvers, args, vals, en, environ) ==
    The({IF built.panic
         THEN [rest |-> <<>>, err |-> ErrPanic("flag redefined"), vals |-> vals,
               en |-> built.en, formal |-> built.formal, calls |-> <<>>, left |-> <<>>,
               sets |-> <<>>]
         ELSE The({The({[rest |-> IF rm.err.kind # "nil" THEN <<>> ELSE r.args,
                         err |-> IF rm.err.kind # "nil" THEN rm.err
                                 ELSE parseError(r.err, args),
                         vals |-> rm.vals, en |-> built.en,
                         formal |-> MarkChanged(built.formal, r.sets),
                         calls |-> rm.calls, left |-> r.left, sets |-> r.sets] :
                        rm \in {ResolveMissingFlags(MarkChanged(built.formal, r.sets),
                                    flags, resolvers,
                                    ApplySets(r.sets, built.formal, vals),
                                    built.en, environ)}}) :
                   r \in {FsParse(built.formal, args)}}) :
         built \in {newFS(flags, en)}})

\* the text after the first '-' of the cause, when that '-' is not its first byte
FailedArg(msg) ==
    LET i == Index(msg, <<"-">>) IN IF i > 0 THEN From(msg, i) ELSE <<>>

\* the first of the indices (1-based) in S, 0 if there is none: where a
\* for i, arg := range e.args loop returns
FirstArg(S) == IF S = {} THEN 0 ELSE CHOOSE i \in S : \A j \in S : i <= j

\* ErrUnknownFlag.Unparsed
Unparsed(e) ==
    LET failedArg == FailedArg(e.msg)
        i == FirstArg({n \in 1..Len(e.args) : e.args[n] = failedArg})
        name == TrimPrefix(failedArg, <<"-">>)
        k == FirstArg({n \in 1..Len(e.args) :
                          /\ HasPrefix(e.args[n], <<"-">>)
                          /\ ~HasPrefix(e.args[n], <<"-", "-">>)
                          /\ Index(e.args[n], name) > 0})
    IN IF i > 0 THEN From(e.args, i - 1)
        ELSE IF e.msg[1] = MsgUnknownShorthand /\ k > 0
        THEN <<<<"-">> \o From(e.args[k], Index(e.args[k], name))>> \o From(e.args, k)
        ELSE <<>>

(***************************************************************************)
(* SpecParse: one call of cli.Parse on freshly declared flags, then        *)
(* Unparsed on the error it returned.                                      *)
(***************************************************************************)
BoundedSeq(S, n) == UNION {[1..k -> S] : k \in 0..n}

NoEnv == <<>>
EnvRegion == (E_AWS_REGION :> W_arg)
EnvToken == (E_TOKEN :> W_arg)
EnvBoth == (E_AWS_REGION :> W_arg) @@ (E_TOKEN :> W_true)

\* the values and EnvVar slices the flag structs are declared with
InitVal == [f \in FlagIds |-> ZeroValue(FlagDecl[f].type)]
InitEnvn == [f \in FlagIds |-> FlagDecl[f].env]

\* the argument tokens of TestParse and TestParseUnknownFlag
ParseTokens ==
    {Long(W_test), Short(<<"t">>), Long(W_unknown), Short(<<"u">>),
     Short(<<"t", "u">>), Short(<<"u", "t">>), W_flag, W_arg, <<"-", "-">>,
     Long(W_test \o <<"=">> \o W_arg), Long(W_unknown \o <<"=">> \o W_arg),
     Long(W_help)}

\* the argument tokens for the flags of TestFlagParsing
ResolveTokens ==
    {Long(W_region), W_flag, Long(W_token), Long(W_token \o <<"=">> \o W_false)}

\* a FlagResolver that is not the environment: it knows region and test
ConfigResolver == TableResolver((W_region :> W_flag) @@ (W_test :> W_flag))

\* the flags and resolvers cli.Parse is called with, the environment, and
\* the tokens its arguments are made of
ParseSetups ==
    {[flags |-> <<"test_s">>, resolvers |-> <<>>, environ |-> NoEnv,
      tokens |-> ParseTokens],
     [flags |-> <<"test_b">>, resolvers |-> <<>>, environ |-> NoEnv,
      tokens |-> ParseTokens],
     [flags |-> <<"region", "test_b">>, resolvers |-> <<EnvVarResolver>>,
      environ |-> EnvRegion, tokens |-> ParseTokens]}
    \cup
    {[flags |-> <<"region", "token", "test_s">>, resolvers |-> rs, environ |-> e,
      tokens |-> ResolveTokens] :
        rs \in {<<>>, <<EnvVarResolver>>, <<ConfigResolver, EnvVarResolver>>,
                <<EnvVarResolver, ConfigResolver>>},
        e \in {NoEnv, EnvRegion, EnvToken, EnvBoth}}

NoOutput == [op |-> "none"]

\* no Command tree is built
NoTree ==
    /\ tree = [id |-> "none"]
    /\ parent = <<>> /\ fs = <<>> /\ gfs = <<>> /\ parsed = <<>> /\ gen = <<>>
    /\ fsets = <<>> /\ changed = {} /\ ncalls = 0

InitParse ==
    /\ pc = "start"
    /\ \E su \in ParseSetups :
          \E args \in BoundedSeq(su.tokens, MaxArgs) :
              /\ input = [flags |-> su.flags, resolvers |-> su.resolvers, args |-> args]
              /\ osenv = su.environ
    /\ val = InitVal
    /\ envn = InitEnvn
    /\ output = NoOutput
    /\ unparsed = <<>>
    /\ NoTree

ParseCall ==
    /\ pc = "start"
    /\ \E r \in {Parse(input.flags, input.resolvers, input.args, val, envn, osenv)} :
           /\ output' = [op |-> "Parse", rest |-> r.rest, err |-> r.err,
                         formal |-> r.formal, calls |-> r.calls, left |-> r.left,
                         sets |-> r.sets]
           /\ val' = r.vals
           /\ envn' = r.en
    /\ pc' = "parsed"
    /\ UNCHANGED <<osenv, input, unparsed>>
    /\ UNCHANGED cmdvars

UnparsedCall ==
    /\ pc = "parsed"
    /\ output.err.kind = "unknownflag"
    /\ unparsed' = Unparsed(output.err)
    /\ pc' = "unparsed"
    /\ UNCHANGED <<osenv, val, envn, input, output>>
    /\ UNCHANGED cmdvars

NextParse == ParseCall \/ UnparsedCall

SpecParse == InitParse /\ [][NextParse]_vars

(***************************************************************************)
(* cli.go: the Command tree.                                               *)
(*                                                                         *)
(* A FlagSet object is named <<command, n>>: the n-th FlagSet the command  *)
(* built in Setup.  NoFs is the nil *pflag.FlagSet.  A pflag.Flag object   *)
(* is named <<flag, n>> likewise; flag sets share pflag.Flag objects       *)
(* (FlagSet.AddFlag adds the pointer), so Changed lives in `changed` and   *)
(* the value in the cli flag's slot `val`.                                 *)
(*                                                                         *)
(* FlagSet.args is written by every FlagSet.Parse and read only later in   *)
(* the same Execute call (fs.Arg(0), Context.Args), so it travels in the   *)
(* call's record (posargs) and not in `fsets`.                             *)
(***************************************************************************)
NoFs == <<>>

ErrMisconfigured(c, m) == [kind |-> "misconfigured", msg |-> <<m>>, cmd |-> c]
ErrRedefined(c, names) ==
    [kind |-> "redefined", msg |-> <<"global flags redefined locally: ">> \o names, cmd |-> c]
ErrNoSubcommand == [kind |-> "nosubcommand", msg |-> <<"no subcommand specified. See --help">>]

\* the program state a call works on, as one record
Pack ==
    [parent |-> parent, fs |-> fs, gfs |-> gfs, parsed |-> parsed, gen |-> gen,
     fsets |-> fsets, changed |-> changed, val |-> val, envn |-> envn,
     posargs |-> [n \in DOMAIN tree.nodes |-> <<>>], log |-> <<>>]

Event(ev, c, arg) == [ev |-> ev, node |-> c, arg |-> arg]

\* Command.name: the first word of Usage
name(c) == tree.nodes[c].usage

\* Command.combinedFlags
RECURSIVE visitGlobal(_, _, _)
visitGlobal(global, k, acc) ==
    IF k > Len(global) THEN acc
    ELSE LET f == global[k]
         IN  visitGlobal(global, k + 1,
                 IF HasName(acc.formal, f.name)
                    \/ (f.short # <<>> /\ HasShort(acc.formal, f.short[1]))
                 THEN [acc EXCEPT !.redefined = Append(@, f.name)]
                 ELSE [acc EXCEPT !.formal = SortedInsert(@, f)])

combinedFlags(c, st) ==
    IF st.gfs[c] = NoFs THEN [st |-> st, fs |-> st.fs[c], err |-> NoErr]
    ELSE The({IF Len(acc.redefined) > 0
              THEN [st |-> [st EXCEPT !.fsets[st.fs[c]] = acc.formal], fs |-> NoFs,
                    err |-> ErrRedefined(c, acc.redefined)]
              ELSE [st |-> [st EXCEPT !.fsets[st.fs[c]] = acc.formal], fs |-> st.fs[c],
                    err |-> NoErr] :
              acc \in {visitGlobal(st.fsets[st.gfs[c]], 1,
                           [formal |-> st.fsets[st.fs[c]], redefined |-> <<>>])}})

\* Command.setParent, for the subcommands of c that have no parent yet
RECURSIVE setParents(_, _, _)
setParents(c, i, st) ==
    IF i > Len(tree.nodes[c].subs) THEN [st |-> st, err |-> NoErr]
    ELSE LET sub == tree.nodes[c].subs[i]
         IN  IF st.parent[sub] # Nil THEN setParents(c, i + 1, st)
             ELSE The({IF cf.err.kind # "nil"
                       THEN [st |-> [cf.st EXCEPT !.gfs[sub] = cf.fs], err |-> cf.err]
                       ELSE setParents(c, i + 1, [cf.st EXCEPT !.gfs[sub] = cf.fs]) :
                       cf \in {combinedFlags(c, [st EXCEPT !.parent[sub] = c])}})

\* Command.Setup past the validation of the node: the flag set is reset, the
\* flags applied, and the subcommands given their parent
setupFlags(c, st) ==
    LET node == tree.nodes[c]
        g == st.gen[c] + 1
    IN  The({The({IF ap.panic
                  THEN [st |-> st1, err |-> ErrPanic("flag redefined")]
                  ELSE setParents(c, 1, st1) :
                  st1 \in {[st EXCEPT !.gen[c] = g,
                                      !.fs[c] = <<c, g>>,
                                      !.fsets = (<<c, g>> :> ap.formal) @@ @,
                                      !.envn = ap.en,
                                      !.log = Append(@, Event("setup", c, <<>>))]}}) :
             ap \in {ApplyAll(node.flags, 1, g,
                        [formal |-> <<>>, en |-> st.envn, panic |-> FALSE])}})

\* Setup with the validation of the node's shape left out
SetupUnvalidated(c, st) == setupFlags(c, st)

\* Command.Setup
Setup(c, st) ==
    LET node == tree.nodes[c]
    IN  IF node.usage = <<>>
        THEN [st |-> st, err |-> ErrMisconfigured(c, "usage must be defined")]
        ELSE IF node.exec = "none" /\ Len(node.subs) = 0
        THEN [st |-> st, err |-> ErrMisconfigured(c, "must define either exec or subcommands")]
        ELSE IF node.exec # "none" /\ Len(node.subs) > 0
        THEN [st |-> st, err |-> ErrMisconfigured(c, "cannot define both exec and subcommands")]
        ELSE setupFlags(c, st)

\* the flags of FlagSet object id, each with the Changed bit of its pflag.Flag
WithChanged(formal, ch) ==
    [i \in 1..Len(formal) |-> [formal[i] EXCEPT !.changed = formal[i].pid \in ch]]

\* 1-based index of the first subcommand of c named a, 0 if none
FirstSub(c, a) ==
    LET subs == tree.nodes[c].subs
    IN  IF \E i \in 1..Len(subs) : name(subs[i]) = a
        THEN CHOOSE i \in 1..Len(subs) :
                 name(subs[i]) = a /\ \A j \in 1..(i - 1) : name(subs[j]) # a
        ELSE 0

\* the args Command.Parse goes on with after an unknown-flag error: the
\* slice args[(ii - 1):] for the first ii with args[ii] = failedArg (0-based);
\* panics is the slice expression leaving the bounds
TrimToFailed(args, err) ==
    LET failedArg == FailedArg(err.msg)
        ii == FirstArg({n \in 1..Len(args) : args[n] = failedArg}) - 1
    IN  IF Index(err.msg, <<"-">>) > 0 /\ ii >= 0
        THEN [panics |-> ii - 1 < 0, args |-> IF ii - 1 < 0 THEN args ELSE From(args, ii - 1)]
        ELSE [panics |-> FALSE, args |-> args]

RECURSIVE CmdParse(_, _, _)
\* Command.Parse with a pending help signal outranking the error of
\* ResolveMissingFlags
cmdParsedHelpFirst(c, args, r, st2, trim, rm) ==
    LET node == tree.nodes[c]
        helpRequested == r.err.kind = "help"
        st3 == [st2 EXCEPT !.val = rm.vals,
                           !.log = Append(@, Event("resolve", c, rm.calls))]
        arg0 == IF Len(r.args) > 0 THEN r.args[1] ELSE <<>>
        m == FirstSub(c, arg0)
    IN  IF r.err.kind # "nil" /\ ~isUnknownFlagErr(r.err) /\ ~helpRequested
        THEN [st |-> st2, err |-> r.err]
        ELSE IF trim.panics
        THEN [st |-> st2, err |-> ErrPanic("slice bounds out of range [-1:]")]
        ELSE IF rm.err.kind # "nil" /\ ~helpRequested THEN [st |-> st3, err |-> rm.err]
        ELSE IF Len(node.subs) > 0 /\ m > 0
        THEN IF Len(trim.args) < 1
             THEN [st |-> [st3 EXCEPT !.parsed[c] = node.subs[m]],
                   err |-> ErrPanic("slice bounds out of range [1:0]")]
             ELSE CmdParse(node.subs[m], Tail(trim.args),
                           [st3 EXCEPT !.parsed[c] = node.subs[m]])
        ELSE [st |-> [st3 EXCEPT !.parsed[c] = c],
              err |-> IF Len(node.subs) > 0 /\ ~helpRequested
                      THEN ErrNoSubcommand ELSE r.err]

\* Command.Parse, from the switch on the error r of c.fs.Parse(args) on:
\* st2 is the state after c.fs.Parse, trim the args the unknown-flag case
\* leaves, rm what ResolveMissingFlags returned
cmdParsed(c, args, r, st2, trim, rm) ==
    LET node == tree.nodes[c]
        helpRequested == r.err.kind = "help"
        st3 == [st2 EXCEPT !.val = rm.vals,
                           !.log = Append(@, Event("resolve", c, rm.calls))]
        arg0 == IF Len(r.args) > 0 THEN r.args[1] ELSE <<>>
        m == FirstSub(c, arg0)
    IN  IF r.err.kind # "nil" /\ ~isUnknownFlagErr(r.err) /\ ~helpRequested
        THEN [st |-> st2, err |-> r.err]
        ELSE IF trim.panics
        THEN [st |-> st2, err |-> ErrPanic("slice bounds out of range [-1:]")]
        ELSE IF rm.err.kind # "nil" THEN [st |-> st3, err |-> rm.err]
        ELSE IF Len(node.subs) > 0 /\ m > 0
        THEN IF Len(trim.args) < 1
             THEN [st |-> [st3 EXCEPT !.parsed[c] = node.subs[m]],
                   err |-> ErrPanic("slice bounds out of range [1:0]")]
             ELSE CmdParse(node.subs[m], Tail(trim.args),
                           [st3 EXCEPT !.parsed[c] = node.subs[m]])
        ELSE [st |-> [st3 EXCEPT !.parsed[c] = c],
              err |-> IF Len(node.subs) > 0 /\ ~helpRequested
                      THEN ErrNoSubcommand ELSE r.err]

\* the program state after c.fs.Parse(args) returned r
AfterFsParse(c, args, r, st) ==
    [st EXCEPT !.posargs[c] = r.args,
               !.val = ApplySets(r.sets, st.fsets[st.fs[c]], @),
               !.changed = @ \cup {r.sets[k].pid : k \in {n \in 1..Len(r.sets) : r.sets[n].ok}},
               !.log = Append(@, Event("fsparse", c,
                                       [args |-> args, sets |-> r.sets, err |-> r.err]))]

\* Command.Parse
CmdParse(c, args, st) ==
    The({IF su.err.kind # "nil" THEN su
         ELSE The({The({The({cmdParsed(c, args, r, st2,
                                 IF isUnknownFlagErr(r.err) THEN TrimToFailed(args, r.err)
                                 ELSE [panics |-> FALSE, args |-> args],
                                 rm) :
                             rm \in {ResolveMissingFlags(
                                        WithChanged(st2.fsets[st2.fs[c]], st2.changed),
                                        tree.nodes[c].flags, tree.resolvers,
                                        st2.val, st2.envn, osenv)}}) :
                        st2 \in {AfterFsParse(c, args, r, su.st)}}) :
                   r \in {FsParse(su.st.fsets[su.st.fs[c]], args)}}) :
         su \in {Setup(c, [st EXCEPT !.log = Append(@, Event("parse", c, args))])}})

\* the Context handed to Exec: the positional arguments and the flag values
\* the flag set fsid gives access to
Context(fsid, c, st) ==
    LET formal == st.fsets[fsid]
        names == {formal[i].name : i \in 1..Len(formal)}
    IN  [args |-> st.posargs[c],
         flags |-> [n \in names |-> st.val[ByName(formal, n).fid]]]

NoContext == [args |-> <<>>, flags |-> <<>>]

\* Command.Execute: what it returns (err), what Parse returned (parseErr), the
\* command whose Exec ran and the Context it got, the command whose usage
\* went to ErrWriter, and the program state it leaves
Execute(c, args, st) ==
    The({LET target == p.st.parsed[c]
             quiet == [st |-> p.st, parseErr |-> p.err, invoked |-> Nil,
                       context |-> NoContext, usage |-> Nil]
         IN  IF p.err.kind = "panic" THEN [err |-> p.err] @@ quiet
             ELSE IF p.err.kind = "help"
             THEN [err |-> NoErr, usage |-> target] @@ quiet
             ELSE IF p.err.kind # "nil"
             THEN [err |-> [kind |-> "wrapped", msg |-> <<"parsing command: ">>,
                            cause |-> p.err]] @@ quiet
             ELSE The({IF cf.err.kind # "nil" THEN [err |-> cf.err, st |-> cf.st] @@ quiet
                       ELSE IF tree.nodes[target].exec = "none"
                       THEN [err |-> ErrPanic("nil func call"), st |-> cf.st] @@ quiet
                       ELSE [err |-> IF tree.nodes[target].exec = "ok" THEN NoErr
                                     ELSE [kind |-> "exec", msg |-> <<"exec failed">>],
                             st |-> [cf.st EXCEPT
                                        !.log = Append(@, Event("exec", target, <<>>))],
                             invoked |-> target,
                             context |-> Context(cf.fs, target, cf.st)] @@ quiet :
                       cf \in {combinedFlags(target, p.st)}}) :
         p \in {CmdParse(c, args, st)}})

(***************************************************************************)
(* The Command trees of the model.                                         *)
(***************************************************************************)
W_root == <<"r", "o", "o", "t">>
W_subcommand == <<"s", "u", "b", "c", "o", "m", "m", "a", "n", "d">>
W_nested == <<"n", "e", "s", "t", "e", "d">>
W_deep == <<"d", "e", "e", "p">>
W_both == <<"b", "o", "t", "h">>
W_neither == <<"n", "e", "i", "t", "h", "e", "r">>

Cmd(usage, flags, exec, subs) ==
    [usage |-> usage, flags |-> flags, exec |-> exec, subs |-> subs]

\* Test_Subcommands_InheritGlobalFlags, Test_Subcommands_IgnoresGlobalFlagOrder
TreeInherit ==
    [id |-> "inherit", root |-> "root", resolvers |-> <<EnvVarResolver>>,
     nodes |-> [root |-> Cmd(W_root, <<"debug">>, "none", <<"sub">>),
                sub |-> Cmd(W_subcommand, <<>>, "ok", <<>>)],
     tokens |-> {Long(W_debug), W_subcommand, W_arg, Long(W_help)}]

\* Test_NestedSubcommands
TreeNested ==
    [id |-> "nested", root |-> "root", resolvers |-> <<EnvVarResolver>>,
     nodes |-> [root |-> Cmd(W_root, <<"debug">>, "none", <<"nested">>),
                nested |-> Cmd(W_nested, <<>>, "none", <<"sub">>),
                sub |-> Cmd(W_subcommand, <<>>, "ok", <<>>)],
     tokens |-> {Long(W_debug), W_nested, W_subcommand, Long(W_help)}]

\* a subcommand redeclares the root's flag by its long name
TreeRedefName ==
    [id |-> "redefname", root |-> "root", resolvers |-> <<EnvVarResolver>>,
     nodes |-> [root |-> Cmd(W_root, <<"debug">>, "none", <<"sub">>),
                sub |-> Cmd(W_subcommand, <<"debug2">>, "ok", <<>>)],
     tokens |-> {Long(W_debug), W_subcommand, Short(<<"d">>)}]

\* a subcommand redeclares the root's flag by its shorthand
TreeRedefShort ==
    [id |-> "redefshort", root |-> "root", resolvers |-> <<EnvVarResolver>>,
     nodes |-> [root |-> Cmd(W_root, <<"debug">>, "none", <<"sub">>),
                sub |-> Cmd(W_subcommand, <<"dry">>, "ok", <<>>)],
     tokens |-> {Long(W_debug), W_subcommand, Short(<<"d">>), Long(W_dry)}]

\* routers three levels deep, no flags
TreeDeep ==
    [id |-> "deep", root |-> "root", resolvers |-> <<EnvVarResolver>>,
     nodes |-> [root |-> Cmd(W_root, <<>>, "none", <<"nested">>),
                nested |-> Cmd(W_nested, <<>>, "none", <<"deep">>),
                deep |-> Cmd(W_deep, <<>>, "none", <<"sub">>),
                sub |-> Cmd(W_subcommand, <<>>, "ok", <<>>)],
     tokens |-> {W_nested, W_deep, W_subcommand, Long(W_help)}]

\* subcommands with both Exec and Subcommands, and with neither
TreeMisconfigured ==
    [id |-> "misconfigured", root |-> "root", resolvers |-> <<EnvVarResolver>>,
     nodes |-> [root |-> Cmd(W_root, <<"region">>, "none", <<"both", "neither", "sub">>),
                both |-> Cmd(W_both, <<"debug">>, "ok", <<"leaf">>),
                neither |-> Cmd(W_neither, <<"debug2">>, "none", <<>>),
                leaf |-> Cmd(W_arg, <<>>, "ok", <<>>),
                sub |-> Cmd(W_subcommand, <<>>, "fail", <<>>)],
     tokens |-> {W_both, W_neither, W_subcommand, Long(W_debug)}]

\* a single command with an action
TreeLeaf ==
    [id |-> "leaf", root |-> "root", resolvers |-> <<EnvVarResolver>>,
     nodes |-> [root |-> Cmd(W_root, <<"debug">>, "ok", <<>>)],
     tokens |-> {Long(W_unknown), Short(<<"u">>), W_arg, Long(W_debug)}]

\* a router below the root with two subcommands
TreeFamily ==
    [id |-> "family", root |-> "root", resolvers |-> <<EnvVarResolver>>,
     nodes |-> [root |-> Cmd(W_root, <<"debug">>, "none", <<"nested">>),
                nested |-> Cmd(W_nested, <<>>, "none", <<"sub", "deep">>),
                sub |-> Cmd(W_subcommand, <<>>, "ok", <<>>),
                deep |-> Cmd(W_deep, <<>>, "ok", <<>>)],
     tokens |-> {W_nested, W_subcommand, W_deep, Long(W_debug)}]

\* a required flag on the root, a flag of its own on the subcommand
TreeScoped ==
    [id |-> "scoped", root |-> "root", resolvers |-> <<EnvVarResolver>>,
     nodes |-> [root |-> Cmd(W_root, <<"region">>, "none", <<"sub">>),
                sub |-> Cmd(W_subcommand, <<"debug">>, "ok", <<>>)],
     tokens |-> {W_subcommand, Long(W_debug), Long(W_region \o <<"=">> \o W_arg),
                 Long(W_help), Short(<<"h">>)}]

\* a single command with two required flags that read the environment
TreeRequired ==
    [id |-> "required", root |-> "root", resolvers |-> <<EnvVarResolver>>,
     nodes |-> [root |-> Cmd(W_root, <<"region", "token">>, "ok", <<>>)],
     tokens |-> {Long(W_region), Long(W_token), W_arg, Long(W_help)}]

Trees == {TreeInherit, TreeNested, TreeRedefName, TreeRedefShort, TreeDeep,
          TreeMisconfigured, TreeLeaf, TreeFamily, TreeScoped, TreeRequired}

(***************************************************************************)
(* Spec: Execute calls, one after the other, on one Command tree.          *)
(***************************************************************************)
Nodes == DOMAIN tree.nodes

Init ==
    /\ pc = "idle"
    /\ tree \in Trees
    /\ osenv \in {NoEnv, EnvRegion, EnvToken}
    /\ val = InitVal
    /\ envn = InitEnvn
    /\ input = [op |-> "none"]
    /\ output = NoOutput
    /\ unparsed = <<>>
    /\ parent = [n \in Nodes |-> Nil]
    /\ parsed = [n \in Nodes |-> Nil]
    /\ fs = [n \in Nodes |-> NoFs]
    /\ gfs = [n \in Nodes |-> NoFs]
    /\ gen = [n \in Nodes |-> 0]
    /\ fsets = <<>>
    /\ changed = {}
    /\ ncalls = 0

\* the caller runs root.Execute(args)
ExecuteCall ==
    /\ pc = "idle"
    /\ ncalls < MaxCalls
    /\ \E args \in BoundedSeq(tree.tokens, MaxArgs) :
          \E r \in {Execute(tree.root, args, Pack)} :
              /\ input' = [op |-> "Execute", args |-> args]
              /\ output' = [op |-> "Execute", err |-> r.err, parseErr |-> r.parseErr,
                            invoked |-> r.invoked, context |-> r.context,
                            usage |-> r.usage, posargs |-> r.st.posargs, log |-> r.st.log]
              /\ parent' = r.st.parent
              /\ fs' = r.st.fs
              /\ gfs' = r.st.gfs
              /\ parsed' = r.st.parsed
              /\ gen' = r.st.gen
              /\ fsets' = r.st.fsets
              /\ changed' = r.st.changed
              /\ val' = r.st.val
              /\ envn' = r.st.envn
    /\ ncalls' = ncalls + 1
    /\ pc' = "returned"
    /\ UNCHANGED <<osenv, unparsed, tree>>

\* the caller has the result; the tree is ready for the next call
Return ==
    /\ pc = "returned"
    /\ output.err.kind # "panic"
    /\ pc' = "idle"
    /\ input' = [op |-> "none"]
    /\ output' = NoOutput
    /\ UNCHANGED <<osenv, unparsed, val, envn>>
    /\ UNCHANGED cmdvars

Next == ExecuteCall \/ Return

Spec == Init /\ [][Next]_vars
(***************************************************************************)
(* The claims about Command.Execute and Command.Parse, checked under Spec. *)
(***************************************************************************)
Range(q) == {q[i] : i \in 1..Len(q)}

\* Context.GetBool(n) returned true
ReadsTrue(context, n) == n \in DOMAIN context.flags /\ context.flags[n] = W_true

\* C1: for a root that declares the boolean flag --debug/-d and a leaf child
\* with no local flags, Execute with ["--debug","subcommand"] and Execute with
\* ["subcommand","--debug"] both return without error, invoke the child's
\* action, and debug reads true from the Context passed to that action.
C1_GlobalFlagOrderIndependent ==
    (/\ pc = "returned"
     /\ tree.id = "inherit"
     /\ input.args \in {<<Long(W_debug), W_subcommand>>, <<W_subcommand, Long(W_debug)>>})
    => /\ output.err.kind = "nil"
       /\ output.invoked = "sub"
       /\ ReadsTrue(output.context, W_debug)

\* C2: for a tree root -> router -> leaf where the root declares a flag,
\* Execute on the root with args that set the flag and name the router and
\* then the leaf returns without error, invokes the action of the leaf (never
\* a node without an action), and the root's flag is readable in the Context
\* given to that action.
C2_NestedLeafInvoked ==
    (/\ pc = "returned"
     /\ tree.id = "nested"
     /\ input.args \in {<<Long(W_debug), W_nested, W_subcommand>>,
                        <<W_nested, Long(W_debug), W_subcommand>>,
                        <<W_nested, W_subcommand, Long(W_debug)>>})
    => /\ output.err.kind = "nil"
       /\ output.invoked = "sub"
       /\ tree.nodes[output.invoked].exec # "none"
       /\ ReadsTrue(output.context, W_debug)

\* C5: if a child declares a local flag whose long name or shorthand equals
\* that of a flag inherited from an ancestor, Parse of the tree with args that
\* route to that child fails with the redefined-global-flag error naming the
\* colliding flag, and the child's action is never invoked.
C5_RedefinedFailsParse ==
    (/\ pc = "returned"
     /\ tree.id \in {"redefname", "redefshort"}
     /\ W_subcommand \in Range(input.args))
    => /\ output.parseErr.kind = "redefined"
       /\ W_debug \in Range(Tail(output.parseErr.msg))
       /\ output.invoked = Nil

\* the node the names lead to from c, child by child; Nil when a name is no
\* child of the node reached
RECURSIVE RouteTo(_, _)
RouteTo(c, names) ==
    IF names = <<>> THEN c
    ELSE LET next == {d \in Range(tree.nodes[c].subs) : tree.nodes[d].usage = Head(names)}
         IN  IF next = {} THEN Nil ELSE RouteTo(CHOOSE d \in next : TRUE, Tail(names))

\* the args name a path of commands from the root and end in --help
HelpRoute ==
    /\ Len(input.args) >= 1
    /\ input.args[Len(input.args)] = Long(W_help)
    /\ RouteTo(tree.root, SubSeq(input.args, 1, Len(input.args) - 1)) # Nil

HelpTarget == RouteTo(tree.root, SubSeq(input.args, 1, Len(input.args) - 1))

\* C6: for a router node at any depth, Execute on the root with args that
\* route to that node followed by --help invokes no action, returns success,
\* and writes the usage produced for that node itself, not for an ancestor.
C6_HelpOnRouter ==
    (/\ pc = "returned"
     /\ HelpRoute
     /\ Len(tree.nodes[HelpTarget].subs) > 0)
    => /\ output.err.kind = "nil"
       /\ output.invoked = Nil
       /\ output.usage = HelpTarget

\* the node has both an action and children, or neither
BadShape(c) == (tree.nodes[c].exec # "none") <=> (Len(tree.nodes[c].subs) > 0)

\* C10: Parse on a node that has both an action and children, or neither,
\* returns the Misconfigured error before any argument is parsed and before
\* any resolver is consulted, and no action is invoked; every node for which
\* Parse proceeds past validation has exactly one of action and children.
C10_MisconfiguredBeforeParsing ==
    pc = "returned" =>
        \A i \in 1..Len(output.log) :
            /\ (output.log[i].ev = "parse" /\ BadShape(output.log[i].node))
               => /\ i = Len(output.log)
                  /\ output.parseErr.kind = "misconfigured"
                  /\ output.parseErr.cmd = output.log[i].node
                  /\ output.invoked = Nil
            /\ output.log[i].ev \in {"setup", "fsparse", "resolve", "exec"}
               => ~BadShape(output.log[i].node)

\* Parse was called on the node with both an action and children and
\* returned Misconfigured
C10_Witness ==
    /\ pc = "returned"
    /\ \E i \in 1..Len(output.log) :
           output.log[i].ev = "parse" /\ output.log[i].node = "both"
    /\ output.parseErr.kind = "misconfigured"
    /\ output.parseErr.cmd = "both"

(***************************************************************************)
(* The claims about cli.Parse and ErrUnknownFlag.Unparsed, checked under   *)
(* SpecParse.                                                              *)
(***************************************************************************)
PlainWords == {W_flag, W_arg}

\* C3: with only t declared and a first token -tu or -ut followed by plain
\* arguments, cli.Parse fails with ErrUnknownFlag and Unparsed() returns the
\* original token unchanged followed by all trailing args, wherever the
\* unknown letter stands in the chain.
C3_ChainedShorthandTail ==
    (/\ input.flags = <<"test_b">>
     /\ Len(input.args) >= 1
     /\ input.args[1] \in {Short(<<"t", "u">>), Short(<<"u", "t">>)}
     /\ Range(Tail(input.args)) \subseteq PlainWords)
    => /\ pc = "parsed" => output.err.kind = "unknownflag"
       /\ pc = "unparsed" => unparsed = input.args

\* the token fs.Parse stopped on is a long flag or a shorthand standing alone
StoppedOnWholeToken ==
    /\ output.left # <<>>
    /\ \/ HasPrefix(output.left[1], <<"-", "-">>)
       \/ Len(output.left[1]) = 2

\* C4: whenever cli.Parse stops on an unknown long flag or an unknown
\* stand-alone shorthand, Unparsed() is exactly the suffix of the original
\* args that starts at the offending token, at the position where parsing
\* failed, and it is never empty.
C4_UnparsedIsFailingSuffix ==
    (pc = "unparsed" /\ StoppedOnWholeToken)
    => /\ unparsed = output.left
       /\ unparsed # <<>>

\* the flag's Changed bit after fs.Parse: it was set on the command line
ChangedFlag(fid) ==
    \E i \in 1..Len(output.formal) : output.formal[i].fid = fid /\ output.formal[i].changed

\* the resolvers that report found for the flag
Finders(fid) ==
    {i \in 1..Len(input.resolvers) : Resolve(input.resolvers[i], fid, envn, osenv).found}

FirstFinder(fid) == CHOOSE i \in Finders(fid) : \A j \in Finders(fid) : i <= j

\* the value the first resolver that reports found gives for the flag
Offered(fid) == Resolve(input.resolvers[FirstFinder(fid)], fid, envn, osenv).value

\* a resolver offers the flag a value that the flag's type does not accept
Rejected(fid) ==
    /\ ~ChangedFlag(fid)
    /\ Finders(fid) # {}
    /\ ~Accepts(FlagDecl[fid].type, Offered(fid))

\* the required flags neither set on the command line nor found by a resolver
MissingRequired ==
    {fid \in Range(input.flags) : IsRequired(fid) /\ ~ChangedFlag(fid) /\ Finders(fid) = {}}

\* the error is the missing-required-flags error and lists exactly the
\* names of MissingRequired, each once
ListsMissing ==
    /\ output.err.kind = "missing"
    /\ Range(output.err.msg) = {GetName(fid) : fid \in MissingRequired}
    /\ Len(output.err.msg) = Cardinality(MissingRequired)

\* C7 as claimed: ResolveMissingFlags fails with the missing-required-flags
\* error if and only if at least one required flag was neither set on the
\* command line nor given a value by any resolver, and the error lists the
\* names of all such flags, each once, and of no other flag.
C7_MissingIffUnresolved ==
    pc = "parsed" =>
        /\ (output.err.kind = "missing") <=> (MissingRequired # {})
        /\ (output.err.kind = "missing") => ListsMissing

\* C7 amended: when no resolver offers a value that the flag's type rejects,
\* ResolveMissingFlags fails with the missing-required-flags error if and
\* only if at least one required flag was neither set on the command line
\* nor found by a resolver, and the error lists exactly those names, each
\* once; when a resolver's value is rejected, the error of Value.Set is
\* returned in place of the missing-required-flags error.
C7_MissingUnlessRejected ==
    pc = "parsed" =>
        IF \E fid \in Range(input.flags) : Rejected(fid)
        THEN output.err.kind = "set"
        ELSE /\ (output.err.kind = "missing") <=> (MissingRequired # {})
             /\ (output.err.kind = "missing") => ListsMissing

\* two required flags are missing and the one error names both
C7_Witness ==
    /\ pc = "parsed"
    /\ Cardinality(MissingRequired) = 2
    /\ ListsMissing

\* the flag's slot reads as the text v
Holds(fid, v) ==
    IF FlagDecl[fid].type = "string" THEN val[fid] = v
    ELSE \/ v \in BoolTrue /\ val[fid] = W_true
         \/ v \in BoolFalse /\ val[fid] = W_false

\* the writes fs.Parse made to the flag's slot, in order
Writes(fid) == SelectSeq(output.sets, LAMBDA w : w.pid[1] = fid)

\* the value the flag's slot held when fs.Parse returned
ParsedValue(fid) ==
    IF Writes(fid) = <<>> THEN InitVal[fid] ELSE Writes(fid)[Len(Writes(fid))].value

\* the resolvers whose Resolve was called for the flag, in order
Tried(fid) ==
    LET calls == SelectSeq(output.calls, LAMBDA c : c.flag = fid)
    IN  [k \in 1..Len(calls) |-> calls[k].resolver]

\* C8 as claimed: a flag set on the command line is changed by no resolver;
\* otherwise it takes the value of the first resolver, in declaration order,
\* that reports found, and no later resolver is applied to it; otherwise it
\* keeps its declared default.
C8_ValuePrecedence ==
    pc = "parsed" =>
        \A fid \in Range(input.flags) :
            IF ChangedFlag(fid)
            THEN val[fid] = ParsedValue(fid) /\ Tried(fid) = <<>>
            ELSE IF Finders(fid) # {}
            THEN /\ Holds(fid, Offered(fid))
                 /\ Tried(fid) = [k \in 1..FirstFinder(fid) |-> k]
            ELSE /\ val[fid] = ParsedValue(fid)
                 /\ Tried(fid) = [k \in 1..Len(input.resolvers) |-> k]

\* C8 amended: a flag set on the command line is changed by no resolver;
\* otherwise the first resolver, in declaration order, that reports found is
\* the last one applied to it, and the flag takes that resolver's value when
\* its type accepts the value; when its type rejects the value the flag does
\* not take it (a bool flag reads false) and the error of Value.Set is
\* returned; a flag no resolver finds keeps its declared default.
C8_PrecedenceWhenAccepted ==
    pc = "parsed" =>
        \A fid \in Range(input.flags) :
            IF ChangedFlag(fid)
            THEN val[fid] = ParsedValue(fid) /\ Tried(fid) = <<>>
            ELSE IF Finders(fid) # {}
            THEN /\ Tried(fid) = [k \in 1..FirstFinder(fid) |-> k]
                 /\ IF Accepts(FlagDecl[fid].type, Offered(fid))
                    THEN Holds(fid, Offered(fid))
                    ELSE val[fid] = W_false /\ output.err.kind = "set"
            ELSE /\ val[fid] = ParsedValue(fid)
                 /\ Tried(fid) = [k \in 1..Len(input.resolvers) |-> k]

\* two resolvers find region with different values, the first one's value
\* is the flag's, and token, which only the second finds, has the second's
C8_Witness ==
    /\ pc = "parsed"
    /\ input.resolvers = <<ConfigResolver, EnvVarResolver>>
    /\ osenv = EnvBoth
    /\ input.args = <<>>
    /\ Finders("region") = {1, 2}
    /\ val["region"] = W_flag
    /\ Tried("region") = <<1>>
    /\ Tried("token") = <<1, 2>>
    /\ val["token"] = W_true

\* the flags cli.Parse was given that have the long name n, the shorthand c
LongFlags(n) == {fid \in Range(input.flags) : GetName(fid) = n}
ShortFlags(c) == {fid \in Range(input.flags) : GetShorthand(fid) = <<c>>}
TypeOf(S) == FlagDecl[CHOOSE fid \in S : TRUE].type

Undeclared == [declared |-> FALSE, takesNext |-> FALSE, accepted |-> FALSE]

\* what the token --name or --name=value is: a declared flag or not, one that
\* takes the next token as its value or not, with a value its type accepts
LongInfo(s) ==
    LET body == From(s, 2)
        eq == Index(body, <<"=">>)
        n == IF eq < 0 THEN body ELSE SubSeq(body, 1, eq)
    IN  IF LongFlags(n) = {} THEN Undeclared
        ELSE IF eq >= 0
        THEN [declared |-> TRUE, takesNext |-> FALSE,
              accepted |-> Accepts(TypeOf(LongFlags(n)), From(body, eq + 1))]
        ELSE [declared |-> TRUE, takesNext |-> TypeOf(LongFlags(n)) # "bool",
              accepted |-> TRUE]

\* the same for the letters of a shorthand token: boolean letters chain, the
\* letter of a flag with a value takes the rest of the token or the next token
RECURSIVE ShortInfo(_)
ShortInfo(letters) ==
    IF letters = <<>> THEN [declared |-> TRUE, takesNext |-> FALSE, accepted |-> TRUE]
    ELSE IF ShortFlags(letters[1]) = {} THEN Undeclared
    ELSE IF Len(letters) > 2 /\ letters[2] = "="
    THEN [declared |-> TRUE, takesNext |-> FALSE,
          accepted |-> Accepts(TypeOf(ShortFlags(letters[1])), From(letters, 2))]
    ELSE IF TypeOf(ShortFlags(letters[1])) = "bool" THEN ShortInfo(Tail(letters))
    ELSE [declared |-> TRUE, takesNext |-> Len(letters) = 1, accepted |-> TRUE]

IsFlagToken(s) == Len(s) > 1 /\ s[1] = "-"

TokenInfo(s) == IF HasPrefix(s, <<"-", "-">>) THEN LongInfo(s) ELSE ShortInfo(Tail(s))

\* a reading of args token by token: declared tells that every flag token is
\* declared, complete that every flag has its value and the value is one its
\* type accepts, rest is the tokens that are neither flag tokens nor values
\* of flags, in order; a "--" ends the flags and is dropped
RECURSIVE Reading(_, _)
Reading(args, acc) ==
    IF args = <<>> \/ ~acc.declared THEN acc
    ELSE IF Head(args) = <<"-", "-">> THEN [acc EXCEPT !.rest = @ \o Tail(args)]
    ELSE IF ~IsFlagToken(Head(args))
    THEN Reading(Tail(args), [acc EXCEPT !.rest = Append(@, Head(args))])
    ELSE The({IF ~info.declared THEN [acc EXCEPT !.declared = FALSE]
              ELSE IF info.takesNext
              THEN IF Len(args) < 2 THEN [acc EXCEPT !.complete = FALSE]
                   ELSE Reading(Tail(Tail(args)), acc)
              ELSE Reading(Tail(args), [acc EXCEPT !.complete = @ /\ info.accepted]) :
              info \in {TokenInfo(Head(args))}})

ArgsRead == Reading(input.args, [declared |-> TRUE, complete |-> TRUE, rest |-> <<>>])

\* C9 as claimed: when every flag token in args is declared in the flag set,
\* cli.Parse returns no error and the returned remainder is exactly the
\* tokens of args that are neither flag tokens nor values consumed by a
\* flag, in their original order.
C9_DeclaredFlagsParse ==
    (pc = "parsed" /\ ArgsRead.declared)
    => /\ output.err.kind = "nil"
       /\ output.rest = ArgsRead.rest

\* C9 amended: when every flag token in args is declared in the flag set,
\* every flag that takes a value has one, every value given is accepted by
\* its flag's type, and no required flag is left without a value and no
\* resolver's value is rejected, cli.Parse returns no error and the returned
\* remainder is exactly the tokens of args that are neither flag tokens nor
\* values consumed by a flag, in their original order.
C9_WellFormedArgsParse ==
    (/\ pc = "parsed"
     /\ ArgsRead.declared
     /\ ArgsRead.complete
     /\ MissingRequired = {}
     /\ \A fid \in Range(input.flags) : ~Rejected(fid))
    => /\ output.err.kind = "nil"
       /\ output.rest = ArgsRead.rest

\* ["--test","flag","arg"] on the string flag test/t left ["arg"]
C9_Witness ==
    /\ pc = "parsed"
    /\ input.flags = <<"test_s">>
    /\ input.args = <<Long(W_test), W_flag, W_arg>>
    /\ output.err.kind = "nil"
    /\ output.rest = <<W_arg>>
    /\ val["test_s"] = W_flag

(***************************************************************************)
(* The claims about what a router hands to the child it matched, checked   *)
(* under Spec.                                                             *)
(***************************************************************************)
\* the tokens of args that are no flag tokens, in order
Positionals(args) == SelectSeq(args, LAMBDA a : ~IsFlagToken(a))

\* the args of the calls of Parse on node c during the Execute call
ParseArgsOf(c) ==
    {output.log[i].arg : i \in {n \in 1..Len(output.log) :
                                   output.log[n].ev = "parse" /\ output.log[n].node = c}}

\* the root's boolean flag and plain words only, the child's name first among
\* the words
RoutesToChild ==
    /\ tree.id = "inherit"
    /\ Range(input.args) \subseteq {Long(W_debug), W_subcommand, W_arg}
    /\ Positionals(input.args) # <<>>
    /\ Head(Positionals(input.args)) = W_subcommand

\* C11: when the router matches a child, the child's Parse is handed the
\* router's remaining positional arguments after the child's name (here the
\* router knows every flag, so there is no unknown-flag tail): never its own
\* name, never a flag token the router consumed, no positional dropped; the
\* Context of the matched leaf holds exactly the positional arguments that
\* follow the leaf's name.
C11_ChildGetsRemainder ==
    (pc = "returned" /\ RoutesToChild)
    => /\ ParseArgsOf("sub") = {Tail(Positionals(input.args))}
       /\ output.invoked = "sub"
       /\ output.context.args = Tail(Positionals(input.args))

\* C12: for a leaf command and args that contain a flag token unknown to
\* it, the first element of args included, Parse returns normally (no slice
\* index leaves the bounds of args) with the unknown-flag error, and the
\* leaf's action is not invoked.
C12_UnknownFlagOnLeaf ==
    (/\ pc = "returned"
     /\ tree.id = "leaf"
     /\ Range(input.args) \cap {Long(W_unknown), Short(<<"u">>)} # {})
    => /\ output.parseErr.kind # "panic"
       /\ isUnknownFlagErr(output.parseErr)
       /\ output.invoked = Nil

\* the trees in which no flag long name or shorthand is declared more than
\* once along a path from the root to a leaf
NoFlagDeclaredTwice == tree.id \notin {"redefname", "redefshort"}

\* the error is the 'global flags redefined locally' error, wrapped or not
IsRedefined(e) ==
    \/ e.kind = "redefined"
    \/ e.kind = "wrapped" /\ e.cause.kind = "redefined"

\* C13: in a tree where no flag long name or shorthand is declared more than
\* once along any root-to-leaf path, neither Parse nor Execute returns the
\* 'global flags redefined locally' error, also for a non-root router with
\* two or more children and when a node's combined flag set is computed more
\* than once during one Execute.
C13_NoSpuriousRedefined ==
    (pc = "returned" /\ NoFlagDeclaredTwice)
    => /\ ~IsRedefined(output.parseErr)
       /\ ~IsRedefined(output.err)

\* fs.Parse of node n returned the help signal: -h or --help was seen there
HelpSeenAt(n) ==
    \E i \in 1..Len(output.log) :
        /\ output.log[i].ev = "fsparse"
        /\ output.log[i].node = n
        /\ output.log[i].arg.err.kind = "help"

\* the required local flags of node n that the command line did not set and
\* no resolver finds
UnresolvedAt(n) ==
    {fid \in Range(tree.nodes[n].flags) :
        /\ IsRequired(fid)
        /\ <<fid, gen[n]>> \notin changed
        /\ \A k \in 1..Len(tree.resolvers) :
               ~Resolve(tree.resolvers[k], fid, envn, osenv).found}

\* the resolvers that find the flag, and the local flags of node n that the
\* command line did not set and whose first found value their type rejects
FindersAt(fid) ==
    {k \in 1..Len(tree.resolvers) : Resolve(tree.resolvers[k], fid, envn, osenv).found}

RejectedAt(n) ==
    {fid \in Range(tree.nodes[n].flags) :
        /\ <<fid, gen[n]>> \notin changed
        /\ FindersAt(fid) # {}
        /\ ~Accepts(FlagDecl[fid].type,
                    Resolve(tree.resolvers[CHOOSE k \in FindersAt(fid) :
                                               \A l \in FindersAt(fid) : k <= l],
                            fid, envn, osenv).value)}

\* C14 as claimed: if help is requested at a node and a required local flag
\* of that node is left unresolved, Parse returns the missing-required-flags
\* error and not the help signal; Execute prints no usage, invokes nothing
\* and returns the error.
C14_MissingOutranksHelp ==
    pc = "returned" =>
        \A n \in Nodes :
            (HelpSeenAt(n) /\ UnresolvedAt(n) # {})
            => /\ output.parseErr.kind = "missing"
               /\ Range(output.parseErr.msg) = {GetName(fid) : fid \in UnresolvedAt(n)}
               /\ output.usage = Nil
               /\ output.invoked = Nil
               /\ output.err.kind = "wrapped"
               /\ output.err.cause = output.parseErr

\* C14 amended: if help is requested at a node and ResolveMissingFlags fails
\* there, Parse returns the error of ResolveMissingFlags and not the help
\* signal: the missing-required-flags error naming the unresolved required
\* local flags, or, when a resolver's value was rejected by a local flag,
\* the error of Value.Set; Execute prints no usage, invokes nothing and
\* returns the error wrapped.
C14_ResolverErrorOutranksHelp ==
    pc = "returned" =>
        \A n \in Nodes :
            (HelpSeenAt(n) /\ (UnresolvedAt(n) # {} \/ RejectedAt(n) # {}))
            => /\ IF RejectedAt(n) # {} THEN output.parseErr.kind = "set"
                  ELSE /\ output.parseErr.kind = "missing"
                       /\ Range(output.parseErr.msg) =
                              {GetName(fid) : fid \in UnresolvedAt(n)}
               /\ output.usage = Nil
               /\ output.invoked = Nil
               /\ output.err.kind = "wrapped"
               /\ output.err.cause = output.parseErr

\* --help alone on the root that requires region, nothing in the environment
C14_Witness ==
    /\ pc = "returned"
    /\ tree.id = "scoped"
    /\ input.args = <<Long(W_help)>>
    /\ HelpSeenAt("root")
    /\ UnresolvedAt("root") = {"region"}
    /\ output.parseErr.kind = "missing"
    /\ output.usage = Nil

\* the fatal conditions of configuration and parsing
FatalKinds == {"misconfigured", "redefined", "pflag", "missing", "set", "nosubcommand"}

\* C15: every fatal configuration or parsing condition that Execute returns
\* (Misconfigured, redefined global flag, unknown flag, missing required
\* flags, no subcommand specified) is wrapped with the 'parsing command'
\* context, so that unwrapping once yields the original error; only the
\* error returned by the invoked action is returned unwrapped.
C15_FatalErrorsWrapped ==
    pc = "returned" =>
        /\ output.err.kind \notin FatalKinds
        /\ output.err.kind = "wrapped"
           => output.err.cause.kind \in FatalKinds /\ output.err.cause = output.parseErr
        /\ output.err.kind = "exec" => output.invoked # Nil

\* the writes that command-line parsing made to the slot of flag fid during
\* the Execute call: <<i, k>> is the k-th write of the i-th step of the log
CmdLineWrites(fid) ==
    {w \in UNION {{<<i, k>> : k \in 1..Len(output.log[i].arg.sets)} :
                     i \in {n \in 1..Len(output.log) : output.log[n].ev = "fsparse"}} :
        output.log[w[1]].arg.sets[w[2]].pid[1] = fid}

\* the positions of args where the flag occurs, by long name or shorthand
Occurrences(fid) ==
    {i \in 1..Len(input.args) :
        \/ input.args[i] = Long(GetName(fid))
        \/ GetShorthand(fid) # <<>> /\ input.args[i] = Short(GetShorthand(fid))}

\* the resolver calls of the Execute call that found a value for flag fid
ResolverWrites(fid) ==
    {w \in UNION {{<<i, k>> : k \in 1..Len(output.log[i].arg)} :
                     i \in {n \in 1..Len(output.log) : output.log[n].ev = "resolve"}} :
        /\ output.log[w[1]].arg[w[2]].flag = fid
        /\ Resolve(tree.resolvers[output.log[w[1]].arg[w[2]].resolver],
                   fid, envn, osenv).found}

\* the flags declared in the tree
TreeFlags == UNION {Range(tree.nodes[n].flags) : n \in Nodes}

\* C16: during one Execute call command-line parsing writes a flag's value
\* slot at most once per occurrence of the flag in args (an occurrence of an
\* inherited flag is not applied by the ancestor that owns it and again by
\* a descendant parsing against its merged flag set), and after that at most
\* one resolver writes the slot.
C16_OneWritePerOccurrence ==
    (pc = "returned" /\ NoFlagDeclaredTwice)
    => \A fid \in TreeFlags :
           /\ Cardinality(CmdLineWrites(fid)) <= Cardinality(Occurrences(fid))
           /\ Cardinality(ResolverWrites(fid)) <= 1

\* the state of a freshly constructed tree identical to the model's
FreshTree ==
    [parent |-> [n \in Nodes |-> Nil], fs |-> [n \in Nodes |-> NoFs],
     gfs |-> [n \in Nodes |-> NoFs], parsed |-> [n \in Nodes |-> Nil],
     gen |-> [n \in Nodes |-> 0], fsets |-> <<>>, changed |-> {},
     val |-> InitVal, envn |-> InitEnvn,
     posargs |-> [n \in Nodes |-> <<>>], log |-> <<>>]

\* the call's outcome is that of the same call on a freshly constructed tree
SameAsOnFreshTree ==
    \A f \in {Execute(tree.root, input.args, FreshTree)} :
        /\ output.err = f.err
        /\ output.invoked = f.invoked
        /\ output.context = f.context
        /\ output.usage = f.usage

\* the flag set a child inherits from is the one its parent built in the
\* current call
InheritsCurrent ==
    \A n \in Nodes :
        (gfs[n] # NoFs /\ \E i \in 1..Len(output.log) :
                              output.log[i].ev = "setup" /\ output.log[i].node = n)
        => gfs[n] = fs[parent[n]]

\* C17: after Execute(A) on a command tree, Execute(B) on the same tree has
\* the same outcome, the same flag values in the Context and the same
\* environment-variable resolution as Execute(B) on a freshly constructed
\* identical tree; a child's inherited flag set is the one rebuilt for the
\* current call, and applying a flag to a flag set leaves the flag's
\* declared environment-variable names unchanged.
C17_ReuseIndependentOfHistory ==
    pc = "returned" =>
        /\ SameAsOnFreshTree
        /\ InheritsCurrent
        /\ envn = InitEnvn

\* the required flags with a value of the tree that args give a value, as
\* --name=value or as --name followed by a plain word
GivenInArgs ==
    {fid \in TreeFlags :
        /\ IsRequired(fid)
        /\ FlagDecl[fid].type = "string"
        /\ \E i \in 1..Len(input.args) :
               \/ input.args[i] = Long(GetName(fid) \o <<"=">> \o W_arg)
               \/ /\ i < Len(input.args)
                  /\ input.args[i] = Long(GetName(fid))
                  /\ ~IsFlagToken(input.args[i + 1])}

\* no token of args asks for help
NoHelpAsked == Range(input.args) \cap {Long(W_help), Short(<<"h">>)} = {}

\* the names the error lists when it is the missing-required-flags error
ReportedMissing ==
    IF output.parseErr.kind = "missing" THEN Range(output.parseErr.msg) ELSE {}

\* C18: a required flag that is present with a value in the args passed to
\* Execute is never reported in the missing-required-flags error, wherever
\* it stands relative to subcommand names and to flags of another scope.
C18_PresentFlagNotMissing ==
    (pc = "returned" /\ NoHelpAsked) =>
        \A fid \in GivenInArgs : GetName(fid) \notin ReportedMissing

=============================================================================
